---- MODULE Spec2Model ----
(***************************************************************************)
(* Model of src/addr.rs of the aarch64 crate: the VirtAddr and PhysAddr    *)
(* wrapper types, their constructors, bit-field accessors and arithmetic,  *)
(* and the free functions align_down / align_up.                           *)
(*                                                                         *)
(* A u64 is four 16-bit limbs, so every operation keeps the 64-bit width   *)
(* of the source.  Small values (u16, u12, u9, bool) are naturals.         *)
(***************************************************************************)
EXTENDS Naturals, FiniteSets

VARIABLES
    va,       \* the raw u64 of the VirtAddr the caller holds
    pa,       \* the raw u64 of the PhysAddr the caller holds
    call,     \* the call in progress: its name, its arguments and what it returns
    profile,  \* "debug" (debug assertions and overflow checks on) or "release"
    steps     \* number of calls made so far

vars == <<va, pa, call, profile, steps>>

\* Number of calls a behaviour makes.
MaxOps == 2

(***************************************************************************)
(* u64 primitives                                                          *)
(***************************************************************************)
BIT_LENGTH == 64

\* Bits per limb, and 2^16.
LIMB_BITS == 16

LIMB == 65536

\* 2^n for n in 0 .. 16.
Pow2Table ==
    <<1, 2, 4, 8, 16, 32, 64, 128, 256, 512, 1024, 2048, 4096, 8192, 16384,
      32768, 65536>>

Pow2(n) == Pow2Table[n + 1]

\* The u64 written as four 16-bit groups, most significant first
\* (0x1234_0000_0000_0fff is U64(\h1234, 0, 0, \h0fff)); kept least
\* significant limb first.
U64(h3, h2, h1, h0) == <<h0, h1, h2, h3>>

\* Limb k of x (k = 0 the least significant), 0 outside the value.
Limb(x, k) == IF k >= 0 /\ k <= 3 THEN x[k + 1] ELSE 0

\* Bit i of x, i in 0 .. 63.
BitAt(x, i) == (x[(i \div LIMB_BITS) + 1] \div Pow2(i % LIMB_BITS)) % 2

\* `n as u64` / u64::from(n) for a value of at most 16 bits.
U64From(n) == U64(0, 0, 0, n)

Zero64 == U64(0, 0, 0, 0)
Max64  == U64(\hffff, \hffff, \hffff, \hffff)
One64  == U64(0, 0, 0, 1)

\* a & b on limbs.
RECURSIVE And16(_, _)
And16(a, b) ==
    IF a = 0 \/ b = 0 THEN 0
    ELSE (a % 2) * (b % 2) + 2 * And16(a \div 2, b \div 2)

Or16(a, b) == a + b - And16(a, b)

BitAnd(x, y) == <<And16(x[1], y[1]), And16(x[2], y[2]), And16(x[3], y[3]), And16(x[4], y[4])>>
BitOr(x, y)  == <<Or16(x[1], y[1]), Or16(x[2], y[2]), Or16(x[3], y[3]), Or16(x[4], y[4])>>
BitNot(x)    == <<(LIMB - 1) - x[1], (LIMB - 1) - x[2], (LIMB - 1) - x[3], (LIMB - 1) - x[4]>>

\* x >> n, 0 <= n < 64.
ShrLimb(x, n, k) ==
    (Limb(x, k + (n \div LIMB_BITS)) \div Pow2(n % LIMB_BITS))
    + (Limb(x, k + 1 + (n \div LIMB_BITS)) % Pow2(n % LIMB_BITS))
      * Pow2(LIMB_BITS - (n % LIMB_BITS))

Shr(x, n) == <<ShrLimb(x, n, 0), ShrLimb(x, n, 1), ShrLimb(x, n, 2), ShrLimb(x, n, 3)>>

\* x << n, 0 <= n < 64 (the bits shifted out are lost).
ShlLimb(x, n, k) ==
    ((Limb(x, k - (n \div LIMB_BITS)) * Pow2(n % LIMB_BITS)) % LIMB)
    + (Limb(x, k - 1 - (n \div LIMB_BITS)) \div Pow2(LIMB_BITS - (n % LIMB_BITS)))

Shl(x, n) == <<ShlLimb(x, n, 0), ShlLimb(x, n, 1), ShlLimb(x, n, 2), ShlLimb(x, n, 3)>>

\* The carry into limb k of x + y (k = 4: the carry out of the u64).
RECURSIVE Carry(_, _, _)
Carry(x, y, k) ==
    IF k = 0 THEN 0 ELSE (x[k] + y[k] + Carry(x, y, k - 1)) \div LIMB

AddLimb(x, y, k) == (x[k] + y[k] + Carry(x, y, k - 1)) % LIMB

WrappingAdd(x, y) == <<AddLimb(x, y, 1), AddLimb(x, y, 2), AddLimb(x, y, 3), AddLimb(x, y, 4)>>

AddOverflows(x, y) == Carry(x, y, 4) = 1

\* x - y modulo 2^64 is x + !y + 1.
WrappingSub(x, y) == WrappingAdd(WrappingAdd(x, BitNot(y)), One64)

\* x < y as unsigned integers.
Less(x, y) ==
    \E k \in 1 .. 4 : x[k] < y[k] /\ \A j \in (k + 1) .. 4 : x[j] = y[j]

\* u64::is_power_of_two: exactly one bit set.
IsPowerOfTwo(x) == Cardinality({i \in 0 .. (BIT_LENGTH - 1) : BitAt(x, i) = 1}) = 1

\* The low 16 bits as a number.
Low16(x) == x[1]

(***************************************************************************)
(* What a call returns.  Every outcome has the same shape:                 *)
(*   tag    "Ok" / "Err" (a Result), "Val" (a u64), "Num" (a narrow        *)
(*          integer or a bool as 0/1), "Panic" (the call did not return)   *)
(*   val    the u64 returned, wrapped, or carried by the error             *)
(*   n      the narrow integer returned                                    *)
(*   range  the VirtAddrRange variant returned                             *)
(***************************************************************************)
Outcome(tag, val, n, range) == <<tag, val, n, range>>

Tag(r)     == r[1]
ValueOf(r) == r[2]
NumOf(r)   == r[3]
RangeOf(r) == r[4]

Ok(v)       == Outcome("Ok", v, 0, "-")
OkRange(r)  == Outcome("Ok", Zero64, 0, r)
Err(v)      == Outcome("Err", v, 0, "-")
Val(v)      == Outcome("Val", v, 0, "-")
Num(n)      == Outcome("Num", Zero64, n, "-")
Bool(b)     == Num(IF b THEN 1 ELSE 0)
Panic       == Outcome("Panic", Zero64, 0, "-")

\* x + y with Rust's `+`: a panic under overflow checks, wrapping without.
Plus(x, y) ==
    IF AddOverflows(x, y) /\ profile = "debug" THEN Panic ELSE Val(WrappingAdd(x, y))

\* x - y with Rust's `-`.
Minus(x, y) ==
    IF Less(x, y) /\ profile = "debug" THEN Panic ELSE Val(WrappingSub(x, y))

\* x.checked_sub(y).unwrap()
CheckedSubUnwrap(x, y) == IF Less(x, y) THEN Panic ELSE Val(WrappingSub(x, y))

\* BitField::get_bits(start..end) on a u64: shift the high bits away, then the low.
GetBits(x, start, end) ==
    Shr(Shr(Shl(x, BIT_LENGTH - end), BIT_LENGTH - end), start)

\* u16::try_from(x).unwrap(): fails when x does not fit 16 bits.
TryIntoU16Unwrap(x) ==
    IF \E k \in 2 .. 4 : x[k] # 0 THEN Panic ELSE Num(Low16(x))

\* ux::uN::new(value): asserts value <= 2^N - 1.
UxNew(bits, r) ==
    IF Tag(r) = "Panic" THEN Panic
    ELSE IF NumOf(r) > Pow2(bits) - 1 THEN Panic ELSE Num(NumOf(r))

(***************************************************************************)
(* Free functions                                                          *)
(***************************************************************************)
\* The alignment argument fails debug_assert!(align.is_power_of_two()).
AlignAssertFails(align) == profile = "debug" /\ ~IsPowerOfTwo(align)

align_down(addr, align) ==
    IF AlignAssertFails(align) THEN Panic
    ELSE LET m == Minus(align, One64)
         IN  IF Tag(m) = "Panic" THEN Panic ELSE Val(BitAnd(addr, BitNot(ValueOf(m))))

\* align_up without the already-aligned branch.
align_up_NoAlignedCheck(addr, align) ==
    IF AlignAssertFails(align) THEN Panic
    ELSE LET align_mask == Minus(align, One64)
         IN  IF Tag(align_mask) = "Panic" THEN Panic
             ELSE Plus(BitOr(addr, ValueOf(align_mask)), One64)

\* align_up with wrapping_add in place of `+`.
align_up_WrappingAdd(addr, align) ==
    IF AlignAssertFails(align) THEN Panic
    ELSE LET align_mask == Minus(align, One64)
         IN  IF Tag(align_mask) = "Panic" THEN Panic
             ELSE IF BitAnd(addr, ValueOf(align_mask)) = Zero64
                  THEN Val(addr)
                  ELSE Val(WrappingAdd(BitOr(addr, ValueOf(align_mask)), One64))

align_up(addr, align) ==
    IF AlignAssertFails(align) THEN Panic
    ELSE LET align_mask == Minus(align, One64)
         IN  IF Tag(align_mask) = "Panic" THEN Panic
             ELSE IF BitAnd(addr, ValueOf(align_mask)) = Zero64
                  THEN Val(addr)
                  ELSE Plus(BitOr(addr, ValueOf(align_mask)), One64)

(***************************************************************************)
(* VirtAddrRange                                                           *)
(***************************************************************************)
\* as_offset with the TopRange arm returning 0.
as_offset_NoTop(range) == Zero64

as_offset(range) ==
    IF range = "BottomRange" THEN Zero64 ELSE U64(\hffff, 0, 0, 0)

(***************************************************************************)
(* VirtAddr                                                                *)
(***************************************************************************)
VirtAddr_new(addr) == Ok(addr)

\* try_new reporting the whole raw value instead of its top field.
VirtAddr_try_new_RawPayload(addr) ==
    LET top == GetBits(addr, 48, 64)
    IN  IF top = Zero64 \/ top = U64From(\hffff) THEN Ok(addr) ELSE Err(addr)

VirtAddr_try_new(addr) ==
    LET top == GetBits(addr, 48, 64)
    IN  IF top = Zero64 \/ top = U64From(\hffff) THEN Ok(addr) ELSE Err(top)

VirtAddr_new_unchecked(addr) == Ok(addr)

VirtAddr_zero == Ok(Zero64)

VirtAddr_from_ptr(ptr) == VirtAddr_new(ptr)

\* Wraps what align_up / align_down returned into an address.
Wrap(r) == IF Tag(r) = "Panic" THEN Panic ELSE Ok(ValueOf(r))

VirtAddr_align_up(self, align) == Wrap(align_up(self, align))

VirtAddr_align_down(self, align) == Wrap(align_down(self, align))

VirtAddr_is_aligned(self, align) ==
    LET d == VirtAddr_align_down(self, align)
    IN  IF Tag(d) = "Panic" THEN Panic ELSE Bool(ValueOf(d) = self)

page_offset(self) ==
    UxNew(12, TryIntoU16Unwrap(BitAnd(self, U64From(\hfff))))

\* `as u16` truncates to the low 16 bits.
va_range_bits(self) == Low16(BitAnd(Shr(self, 48), U64From(\hffff)))

va_range(self) ==
    CASE va_range_bits(self) = 0      -> OkRange("BottomRange")
      [] va_range_bits(self) = \hffff -> OkRange("TopRange")
      [] OTHER                        -> Err(self)

p1_index(self) ==
    UxNew(9, TryIntoU16Unwrap(BitAnd(Shr(self, 12), U64From(\o777))))

\* p2_index shifting by 12 twice.
p2_index_Shift12(self) ==
    UxNew(9, TryIntoU16Unwrap(BitAnd(Shr(Shr(self, 12), 12), U64From(\o777))))

p2_index(self) ==
    UxNew(9, TryIntoU16Unwrap(BitAnd(Shr(Shr(self, 12), 9), U64From(\o777))))

p3_index(self) ==
    UxNew(9, TryIntoU16Unwrap(BitAnd(Shr(Shr(Shr(self, 12), 9), 9), U64From(\o777))))

p4_index(self) ==
    UxNew(9, TryIntoU16Unwrap(
                BitAnd(Shr(Shr(Shr(Shr(self, 12), 9), 9), 9), U64From(\o777))))

\* impl Add<u64> for VirtAddr
VirtAddr_add(self, rhs) == Wrap(Plus(self, rhs))

\* impl Sub<u64> for VirtAddr
VirtAddr_sub(self, rhs) == Wrap(CheckedSubUnwrap(self, rhs))

\* Sub<VirtAddr> with plain `-` in place of checked_sub(..).unwrap().
VirtAddr_sub_addr_Plain(self, rhs) == Minus(self, rhs)

\* impl Sub<VirtAddr> for VirtAddr
VirtAddr_sub_addr(self, rhs) == CheckedSubUnwrap(self, rhs)

(***************************************************************************)
(* PhysAddr                                                                *)
(***************************************************************************)
PhysAddr_new(addr) == Ok(addr)

\* PhysAddr::try_new testing the virtual-address field 48..64.
PhysAddr_try_new_Bits48(addr) ==
    LET high == GetBits(addr, 48, 64)
    IN  IF high = Zero64 THEN Ok(addr) ELSE Err(high)

PhysAddr_try_new(addr) ==
    LET high == GetBits(addr, 52, 64)
    IN  IF high = Zero64 THEN Ok(addr) ELSE Err(high)

PhysAddr_is_null(self) == Bool(self = Zero64)

PhysAddr_align_up(self, align) == Wrap(align_up(self, align))

PhysAddr_align_down(self, align) == Wrap(align_down(self, align))

PhysAddr_is_aligned(self, align) ==
    LET d == PhysAddr_align_down(self, align)
    IN  IF Tag(d) = "Panic" THEN Panic ELSE Bool(ValueOf(d) = self)

\* impl Add<u64> for PhysAddr
PhysAddr_add(self, rhs) == Wrap(Plus(self, rhs))

\* impl Sub<u64> for PhysAddr
PhysAddr_sub(self, rhs) == Wrap(CheckedSubUnwrap(self, rhs))

\* impl Sub<PhysAddr> for PhysAddr
PhysAddr_sub_addr(self, rhs) == CheckedSubUnwrap(self, rhs)

(***************************************************************************)
(* Inputs                                                                  *)
(***************************************************************************)
\* Raw u64 values handed to the constructors and the free functions.
Raws ==
    { Zero64,
      U64(0, 0, 0, 1233),
      U64(0, 0, 0, 1234),
      U64(0, 0, \h0040, \h3fff),
      U64(0, \h7fff, \hffff, \hffff),
      U64(0, \hffff, \hffff, \hffff),
      U64(\h000f, \hffff, \hffff, \hffff),
      U64(\h0010, 0, 0, 0),
      U64(\h1234, \h5678, \h9abc, \hdef0),
      U64(\h8000, 0, 0, 0),
      U64(\hffff, \h8000, 0, 0),
      U64(\hffff, \hfedc, \hba98, \h7654),
      U64(\hffff, \hffff, \hffff, \hfffe),
      Max64 }

\* Alignments: powers of two (1, 2, ALIGN_4KIB, ALIGN_2MIB, ALIGN_1GIB, 2^48,
\* 2^63) and two values that are not.
Aligns ==
    { One64,
      U64(0, 0, 0, 2),
      U64(0, 0, 0, \h1000),
      U64(0, 0, \h0020, 0),
      U64(0, 0, \h4000, 0),
      U64(\h0001, 0, 0, 0),
      U64(\h8000, 0, 0, 0),
      U64(0, 0, 0, 3),
      Zero64 }

\* Alignments handed to the free functions: every power of two of a u64 and
\* the two values that are none.
AllAligns ==
    {Shl(One64, k) : k \in 0 .. (BIT_LENGTH - 1)} \cup {U64(0, 0, 0, 3), Zero64}

\* Offsets added to and subtracted from an address.
Offsets ==
    { Zero64, One64, U64(0, 0, 0, \h1000), U64(\h0001, 0, 0, 0), Max64 }

\* Pointers converted by from_ptr.
Ptrs == { U64(0, 0, 0, \h1000), U64(\hffff, \h8000, 0, 0), U64(\h1234, 0, 0, 0) }

(***************************************************************************)
(* The caller                                                              *)
(***************************************************************************)
\* A call: the function called, its arguments (self or the raw value first;
\* Zero64 for an argument the function does not take) and what it returns.
Call(op, a, b, ret) == <<op, a, b, ret>>

NoCall == Call("none", Zero64, Zero64, Outcome("None", Zero64, 0, "-"))

\* The parts of the call in progress.
CallOp == call[1]
ArgA   == call[2]
ArgB   == call[3]
Ret    == call[4]

Init ==
    /\ va = ValueOf(VirtAddr_zero)
    /\ pa = ValueOf(PhysAddr_new(Zero64))
    /\ call = NoCall
    /\ profile \in {"debug", "release"}
    /\ steps = 0

\* The caller makes one call at a time.
CanCall == steps < MaxOps /\ call = NoCall

\* A call that returns (or fails to return) a new VirtAddr, kept when returned.
VirtCall(op, a, b, ret) ==
    /\ CanCall
    /\ call' = Call(op, a, b, ret)
    /\ va' = IF Tag(ret) = "Ok" THEN ValueOf(ret) ELSE va
    /\ steps' = steps + 1
    /\ UNCHANGED <<pa, profile>>

\* A call that returns a new PhysAddr.
PhysCall(op, a, b, ret) ==
    /\ CanCall
    /\ call' = Call(op, a, b, ret)
    /\ pa' = IF Tag(ret) = "Ok" THEN ValueOf(ret) ELSE pa
    /\ steps' = steps + 1
    /\ UNCHANGED <<va, profile>>

\* A call that returns something other than an address.
Query(op, a, b, ret) ==
    /\ CanCall
    /\ call' = Call(op, a, b, ret)
    /\ steps' = steps + 1
    /\ UNCHANGED <<va, pa, profile>>

VirtNew          == \E raw \in Raws : VirtCall("VirtAddr::new", raw, Zero64, VirtAddr_new(raw))
VirtTryNew       == \E raw \in Raws : VirtCall("VirtAddr::try_new", raw, Zero64, VirtAddr_try_new(raw))
VirtNewUnchecked == \E raw \in Raws : VirtCall("VirtAddr::new_unchecked", raw, Zero64, VirtAddr_new_unchecked(raw))
VirtZero         == VirtCall("VirtAddr::zero", Zero64, Zero64, VirtAddr_zero)
VirtFromPtr      == \E ptr \in Ptrs : VirtCall("VirtAddr::from_ptr", ptr, Zero64, VirtAddr_from_ptr(ptr))
VirtAlignUp      == \E al \in Aligns : VirtCall("VirtAddr::align_up", va, al, VirtAddr_align_up(va, al))
VirtAlignDown    == \E al \in Aligns : VirtCall("VirtAddr::align_down", va, al, VirtAddr_align_down(va, al))
VirtAdd          == \E rhs \in Offsets : VirtCall("VirtAddr::add", va, rhs, VirtAddr_add(va, rhs))
VirtSub          == \E rhs \in Offsets : VirtCall("VirtAddr::sub", va, rhs, VirtAddr_sub(va, rhs))
VirtSubAddr      == \E raw \in Raws : Query("VirtAddr::sub_addr", va, ValueOf(VirtAddr_new(raw)), VirtAddr_sub_addr(va, ValueOf(VirtAddr_new(raw))))
VirtIsAligned    == \E al \in Aligns : Query("VirtAddr::is_aligned", va, al, VirtAddr_is_aligned(va, al))
VirtPageOffset   == Query("VirtAddr::page_offset", va, Zero64, page_offset(va))
VirtVaRange      == Query("VirtAddr::va_range", va, Zero64, va_range(va))
VirtVaRangeBits  == Query("VirtAddr::va_range_bits", va, Zero64, Num(va_range_bits(va)))
VirtP1Index      == Query("VirtAddr::p1_index", va, Zero64, p1_index(va))
VirtP2Index      == Query("VirtAddr::p2_index", va, Zero64, p2_index(va))
VirtP3Index      == Query("VirtAddr::p3_index", va, Zero64, p3_index(va))
VirtP4Index      == Query("VirtAddr::p4_index", va, Zero64, p4_index(va))

PhysNew          == \E raw \in Raws : PhysCall("PhysAddr::new", raw, Zero64, PhysAddr_new(raw))
PhysTryNew       == \E raw \in Raws : PhysCall("PhysAddr::try_new", raw, Zero64, PhysAddr_try_new(raw))
PhysAlignUp      == \E al \in Aligns : PhysCall("PhysAddr::align_up", pa, al, PhysAddr_align_up(pa, al))
PhysAlignDown    == \E al \in Aligns : PhysCall("PhysAddr::align_down", pa, al, PhysAddr_align_down(pa, al))
PhysAdd          == \E rhs \in Offsets : PhysCall("PhysAddr::add", pa, rhs, PhysAddr_add(pa, rhs))
PhysSub          == \E rhs \in Offsets : PhysCall("PhysAddr::sub", pa, rhs, PhysAddr_sub(pa, rhs))
PhysSubAddr      == \E raw \in Raws : Query("PhysAddr::sub_addr", pa, ValueOf(PhysAddr_new(raw)), PhysAddr_sub_addr(pa, ValueOf(PhysAddr_new(raw))))
PhysIsAligned    == \E al \in Aligns : Query("PhysAddr::is_aligned", pa, al, PhysAddr_is_aligned(pa, al))
PhysIsNull       == Query("PhysAddr::is_null", pa, Zero64, PhysAddr_is_null(pa))

AlignDown        == \E addr \in Raws, al \in AllAligns : Query("align_down", addr, al, align_down(addr, al))
AlignUp          == \E addr \in Raws, al \in AllAligns : Query("align_up", addr, al, align_up(addr, al))

\* The call returns control to the caller, which goes on to its next call.
\* A panic does not return: it ends the program.
Return ==
    /\ call # NoCall
    /\ Tag(Ret) # "Panic"
    /\ call' = NoCall
    /\ UNCHANGED <<va, pa, profile, steps>>

Next ==
    \/ VirtNew \/ VirtTryNew \/ VirtNewUnchecked \/ VirtZero \/ VirtFromPtr
    \/ VirtAlignUp \/ VirtAlignDown \/ VirtAdd \/ VirtSub \/ VirtSubAddr
    \/ VirtIsAligned \/ VirtPageOffset \/ VirtVaRange \/ VirtVaRangeBits
    \/ VirtP1Index \/ VirtP2Index \/ VirtP3Index \/ VirtP4Index
    \/ PhysNew \/ PhysTryNew \/ PhysAlignUp \/ PhysAlignDown \/ PhysAdd \/ PhysSub
    \/ PhysSubAddr \/ PhysIsAligned \/ PhysIsNull
    \/ Return

\* A caller working with the address types.
Spec == Init /\ [][Next]_vars

\* A caller of the free functions align_down and align_up.
AlignNext == AlignDown \/ AlignUp \/ Return

AlignSpec == Init /\ [][AlignNext]_vars

(***************************************************************************)
(* Properties.  They read the arguments bit by bit (BitAt), not through    *)
(* the shift and mask operators the functions above are built from.        *)
(***************************************************************************)
\* The number held in bits lo .. hi-1 of x (hi - lo <= 16).
RECURSIVE Bits(_, _, _)
Bits(x, lo, hi) == IF lo >= hi THEN 0 ELSE BitAt(x, lo) + 2 * Bits(x, lo + 1, hi)

\* x < y as unsigned 64-bit integers, decided at the highest bit from i down
\* where they differ.
RECURSIVE LtFrom(_, _, _)
LtFrom(x, y, i) ==
    IF BitAt(x, i) # BitAt(y, i) THEN BitAt(x, i) < BitAt(y, i)
    ELSE IF i = 0 THEN FALSE ELSE LtFrom(x, y, i - 1)

Lt(x, y) == LtFrom(x, y, 63)

Le(x, y) == ~Lt(y, x)

\* x is a multiple of the power of two al: no bit below al's bit is set.
MultipleOf(x, al) ==
    \A k \in 0 .. 63 : BitAt(al, k) = 1 => \A i \in 0 .. (k - 1) : BitAt(x, i) = 0

\* Bits 48..64 of x are all zero or all one.
Canonical(x) == Bits(x, 48, 64) \in {0, 65535}

IsCall(op) == CallOp = op

\* C1: VirtAddr::try_new(raw) returns Ok(raw) exactly when bits 48..64 of raw
\* are 0x0000 or 0xFFFF, and otherwise an error carrying the 16-bit top field.
C1_TryNewCanonical ==
    IsCall("VirtAddr::try_new") =>
        IF Canonical(ArgA)
        THEN Tag(Ret) = "Ok" /\ ValueOf(Ret) = ArgA
        ELSE Tag(Ret) = "Err" /\ ValueOf(Ret) = U64(0, 0, 0, Bits(ArgA, 48, 64))

C1_Witness ==
    /\ IsCall("VirtAddr::try_new")
    /\ ArgA = U64(\h1234, \h5678, \h9abc, \hdef0)
    /\ Tag(Ret) = "Err"
    /\ ValueOf(Ret) = U64(0, 0, 0, \h1234)

\* C2: va_range() returns BottomRange for top bits 0x0000, TopRange for 0xFFFF,
\* and otherwise an error whose payload is va_range_bits(), the payload
\* try_new reports for the same raw value.
C2_VaRangePayload ==
    IsCall("VirtAddr::va_range") =>
        CASE Bits(ArgA, 48, 64) = 0     -> Ret = OkRange("BottomRange")
          [] Bits(ArgA, 48, 64) = 65535 -> Ret = OkRange("TopRange")
          [] OTHER ->
                /\ Tag(Ret) = "Err"
                /\ ValueOf(Ret) = U64(0, 0, 0, va_range_bits(ArgA))
                /\ ValueOf(Ret) = ValueOf(VirtAddr_try_new(ArgA))

\* C3: PhysAddr::try_new(raw) returns Ok(raw) exactly when bits 52..64 are
\* zero, and otherwise an error carrying the 12-bit value of bits 52..64.
C3_PhysTryNew ==
    IsCall("PhysAddr::try_new") =>
        IF Bits(ArgA, 52, 64) = 0
        THEN Tag(Ret) = "Ok" /\ ValueOf(Ret) = ArgA
        ELSE Tag(Ret) = "Err" /\ ValueOf(Ret) = U64(0, 0, 0, Bits(ArgA, 52, 64))

C3_Witness ==
    /\ IsCall("PhysAddr::try_new")
    /\ ArgA = U64(\h0010, 0, 0, 0)
    /\ Tag(Ret) = "Err"
    /\ ValueOf(Ret) = U64(0, 0, 0, 1)

\* C4: every VirtAddr the caller can obtain has bits 48..64 all zero or all
\* one, so va_range() never returns an error on it.
C4_AlwaysCanonical == Canonical(va) /\ Tag(va_range(va)) = "Ok"

\* C5: PhysAddr::new(addr) panics whenever a bit in 52..64 of addr is set.
C5_PhysNewPanics ==
    IsCall("PhysAddr::new") /\ Bits(ArgA, 52, 64) # 0 => Tag(Ret) = "Panic"

\* C6: for a canonical VirtAddr, the range offset, the four level indices and
\* the page offset, each shifted into place and or-ed, give back the raw value.
C6_Reconstruct ==
    IsCall("VirtAddr::va_range") /\ Tag(Ret) = "Ok" =>
        /\ ArgA = va
        /\ Ret = va_range(va)
        /\ Tag(p4_index(va)) = "Num" /\ Tag(p3_index(va)) = "Num"
        /\ Tag(p2_index(va)) = "Num" /\ Tag(p1_index(va)) = "Num"
        /\ Tag(page_offset(va)) = "Num"
        /\ BitOr(as_offset(RangeOf(va_range(va))),
             BitOr(Shl(U64From(NumOf(p4_index(va))), 39),
               BitOr(Shl(U64From(NumOf(p3_index(va))), 30),
                 BitOr(Shl(U64From(NumOf(p2_index(va))), 21),
                   BitOr(Shl(U64From(NumOf(p1_index(va))), 12),
                         U64From(NumOf(page_offset(va)))))))) = va

C6_Witness ==
    /\ IsCall("VirtAddr::va_range")
    /\ Ret = OkRange("TopRange")
    /\ va = U64(\hffff, \hfedc, \hba98, \h7654)
    /\ NumOf(p2_index(va)) = 468

\* C7: the level-n index is bits 12+9(n-1) .. 12+9n of the raw value and at
\* most 511, page_offset is bits 0..12 and at most 4095, and none of these
\* accessors panics, canonical address or not.
C7_LevelIndex ==
    /\ IsCall("VirtAddr::p1_index") => Ret = Num(Bits(ArgA, 12, 21)) /\ NumOf(Ret) <= 511
    /\ IsCall("VirtAddr::p2_index") => Ret = Num(Bits(ArgA, 21, 30)) /\ NumOf(Ret) <= 511
    /\ IsCall("VirtAddr::p3_index") => Ret = Num(Bits(ArgA, 30, 39)) /\ NumOf(Ret) <= 511
    /\ IsCall("VirtAddr::p4_index") => Ret = Num(Bits(ArgA, 39, 48)) /\ NumOf(Ret) <= 511
    /\ IsCall("VirtAddr::page_offset") => Ret = Num(Bits(ArgA, 0, 12)) /\ NumOf(Ret) <= 4095

C7_Witness ==
    /\ IsCall("VirtAddr::p2_index")
    /\ ArgA = U64(\h1234, \h5678, \h9abc, \hdef0)
    /\ Ret = Num(213)

\* The next multiple of al at or above addr fits in 64 bits.
NextMultipleFits(addr, al) == MultipleOf(addr, al) \/ ~AddOverflows(addr, al)

\* C8: for a power-of-two align whose next multiple at or above addr fits in 64
\* bits, align_down is the greatest multiple of align <= addr, align_up the
\* smallest multiple >= addr, align_down's result is aligned, and align_up
\* returns an aligned addr unchanged.
C8_AlignBounds ==
    /\ IsCall("align_down") /\ IsPowerOfTwo(ArgB) /\ NextMultipleFits(ArgA, ArgB) =>
            /\ Tag(Ret) = "Val"
            /\ MultipleOf(ValueOf(Ret), ArgB)
            /\ Le(ValueOf(Ret), ArgA)
            /\ Lt(WrappingSub(ArgA, ValueOf(Ret)), ArgB)
            /\ VirtAddr_is_aligned(ValueOf(Ret), ArgB) = Bool(TRUE)
    /\ IsCall("align_up") /\ IsPowerOfTwo(ArgB) /\ NextMultipleFits(ArgA, ArgB) =>
            /\ Tag(Ret) = "Val"
            /\ MultipleOf(ValueOf(Ret), ArgB)
            /\ Le(ArgA, ValueOf(Ret))
            /\ Lt(WrappingSub(ValueOf(Ret), ArgA), ArgB)
            /\ (MultipleOf(ArgA, ArgB) => ValueOf(Ret) = ArgA)

C8_Witness ==
    /\ IsCall("align_up")
    /\ ArgA = U64(0, 0, 0, 1233)
    /\ ArgB = U64(0, 0, 0, 2)
    /\ Ret = Val(U64(0, 0, 0, 1234))

\* addr > 2^64 - al: no multiple of al at or above an unaligned addr fits.
AboveLastMultiple(addr, al) == Lt(WrappingSub(Zero64, al), addr)

\* C9 as stated: for a power-of-two align > 1 and an unaligned addr above
\* 2^64 - align, align_up returns 0 rather than failing; an aligned addr at
\* the top (addr = 2^64 - align) is returned unchanged.
C9_WrapsToZero ==
    IsCall("align_up") /\ IsPowerOfTwo(ArgB) /\ ArgB # One64 =>
        /\ ~MultipleOf(ArgA, ArgB) /\ AboveLastMultiple(ArgA, ArgB) =>
                Ret = Val(Zero64)
        /\ MultipleOf(ArgA, ArgB) /\ Le(WrappingSub(Zero64, ArgB), ArgA) =>
                Ret = Val(ArgA)

\* C9 amended: in that case align_up returns 0 when built without overflow
\* checks and panics on the addition when built with them; an aligned addr at
\* the top is returned unchanged in either build.
C9_WrapsOrPanics ==
    IsCall("align_up") /\ IsPowerOfTwo(ArgB) /\ ArgB # One64 =>
        /\ ~MultipleOf(ArgA, ArgB) /\ AboveLastMultiple(ArgA, ArgB) =>
                Ret = IF profile = "release" THEN Val(Zero64) ELSE Panic
        /\ MultipleOf(ArgA, ArgB) /\ Le(WrappingSub(Zero64, ArgB), ArgA) =>
                Ret = Val(ArgA)

C9_Witness ==
    /\ IsCall("align_up")
    /\ profile = "release"
    /\ ArgA = Max64
    /\ ArgB = U64(0, 0, 0, \h1000)
    /\ Ret = Val(Zero64)

\* C10: a - b for two addresses of one type is exactly the difference of the
\* raw values when b <= a and a panic when b > a; address - offset panics
\* when the offset exceeds the raw value.
C10_SubChecked ==
    /\ IsCall("VirtAddr::sub_addr") \/ IsCall("PhysAddr::sub_addr") =>
            IF Le(ArgB, ArgA)
            THEN /\ Tag(Ret) = "Val"
                 /\ ~AddOverflows(ValueOf(Ret), ArgB)
                 /\ WrappingAdd(ValueOf(Ret), ArgB) = ArgA
            ELSE Ret = Panic
    /\ (IsCall("VirtAddr::sub") \/ IsCall("PhysAddr::sub")) /\ Lt(ArgA, ArgB) =>
            Ret = Panic

C10_Witness ==
    /\ IsCall("VirtAddr::sub_addr")
    /\ profile = "release"
    /\ ArgA = U64(0, 0, 0, 1233)
    /\ ArgB = U64(0, 0, 0, 1234)
    /\ Ret = Panic

====
